---- MODULE Spec2Model ----
(***************************************************************************)
(* Document extraction: the chunker, the vector store, the BM25 index, the *)
(* hybrid (semantic + BM25) searcher and the corrective RAG retrieval that *)
(* runs over them.                                                         *)
(*                                                                         *)
(* Texts are sequences of one-character strings.  Floating point numbers   *)
(* are fixed-point integers with Scale units to 1.0; NaN is a value of its *)
(* own.  Every score the program computes is >= 0, so NaN is kept outside  *)
(* that range.                                                             *)
(*                                                                         *)
(* Spec is the retrieval over a built store and LargeCorpusSpec the same   *)
(* retrieval over a larger store; LibSpec is the store and the searcher    *)
(* under any order of calls; ChunkSpec is chunkDocument; PipelineSpec is   *)
(* the pipeline from the converted texts to the built store.               *)
(***************************************************************************)
EXTENDS Integers, Sequences, FiniteSets, TLC

\* ------------------------------------------------------------------ bounds
MaxChunks == 3
MaxIter == 3
MaxTopK == 2
MaxBlocks == 3

\* ------------------------------------------------------------- arithmetic
Scale == 1000
NaN == -1

IsNaN(x) == x = NaN

Max2(a, b) == IF a >= b THEN a ELSE b

RECURSIVE SumSeq(_)
SumSeq(s) == IF s = <<>> THEN 0 ELSE Head(s) + SumSeq(Tail(s))

\* Math.max(...xs) for a non-empty xs: NaN as soon as one argument is NaN.
RECURSIVE MathMax(_)
MathMax(xs) ==
    IF Len(xs) = 1 THEN Head(xs)
    ELSE LET m == MathMax(Tail(xs))
         IN  IF IsNaN(Head(xs)) \/ IsNaN(m) THEN NaN ELSE Max2(Head(xs), m)

\* Math.sqrt on integers, rounded down (bisection on lo..hi).
RECURSIVE SqrtIn(_, _, _)
SqrtIn(x, lo, hi) ==
    IF lo >= hi THEN lo
    ELSE LET mid == (lo + hi + 1) \div 2
         IN  IF mid * mid <= x THEN SqrtIn(x, mid, hi) ELSE SqrtIn(x, lo, mid - 1)

MathSqrt(x) == SqrtIn(x, 0, 40000)

\* ------------------------------------------------------------------ texts
Letters == {"a", "b", "c"}
Capitals == {"A"}

toLowerCase(ch) == IF ch = "A" THEN "a" ELSE ch

charCodeAt(ch) ==
    CASE ch = " " -> 32
      [] ch = "," -> 44
      [] ch = "A" -> 65
      [] ch = "a" -> 97
      [] ch = "b" -> 98
      [] ch = "c" -> 99

\* \w and \s of the tokenizer's regular expressions.
IsWordChar(ch) == ch \in Letters \cup Capitals
SpaceChars == {" ", "\n"}
IsSpaceChar(ch) == ch \in SpaceChars

\* String.prototype.toLowerCase
LowerText(text) == [i \in 1..Len(text) |-> toLowerCase(text[i])]

\* String.prototype.trim
RECURSIVE TrimStart(_)
TrimStart(text) ==
    IF text # <<>> /\ IsSpaceChar(Head(text)) THEN TrimStart(Tail(text)) ELSE text

RECURSIVE TrimEnd(_)
TrimEnd(text) ==
    IF text # <<>> /\ IsSpaceChar(text[Len(text)])
    THEN TrimEnd(SubSeq(text, 1, Len(text) - 1))
    ELSE text

Trim(text) == TrimEnd(TrimStart(text))

\* ------------------------------------------------------------------- BM25
\* replace(/[^\w\s]/g, ' ')
ReplaceNonWord(ch) == IF IsWordChar(ch) \/ IsSpaceChar(ch) THEN ch ELSE " "

\* split(/\s+/) then filter(token => token.length > 0): the maximal runs of
\* non-space characters.  cur is the token being read.
RECURSIVE SplitTokens(_, _)
SplitTokens(text, cur) ==
    IF text = <<>> THEN (IF cur = <<>> THEN <<>> ELSE <<cur>>)
    ELSE IF IsSpaceChar(Head(text))
         THEN (IF cur = <<>> THEN <<>> ELSE <<cur>>) \o SplitTokens(Tail(text), <<>>)
         ELSE SplitTokens(Tail(text), Append(cur, Head(text)))

tokenize(text) ==
    SplitTokens([i \in 1..Len(text) |-> ReplaceNonWord(LowerText(text)[i])], <<>>)

\* round(Scale * ln((N - df + 0.5) / (df + 0.5) + 1)), row N, column df.
LnTable ==
    << <<288>>,
       <<693, 182>>,
       <<981, 470, 134>>,
       <<1204, 693, 357, 105>>,
       <<1386, 875, 539, 288, 87>>,
       <<1540, 1030, 693, 442, 241, 74>> >>

IdfOf(N, docCount) == LnTable[N][docCount]

TermsOf(doc) == {doc[i] : i \in 1..Len(doc)}

CountOf(doc, term) == Cardinality({i \in 1..Len(doc) : doc[i] = term})

\* The state of a BM25 object after construction.  avgDocLength is kept as
\* the fraction sum/count that the code divides out.
BM25New ==
    [documents |-> <<>>, docLengths |-> <<>>,
     avgSum |-> 0, avgCount |-> 1, idf |-> <<>>]

calculateIDFKeepingOld(documents, oldIdf) ==
    LET N == Len(documents)
        terms == UNION {TermsOf(documents[i]) : i \in 1..N}
        docCount(t) == Cardinality({i \in 1..N : t \in TermsOf(documents[i])})
    IN  [t \in (DOMAIN oldIdf) \cup terms |->
            IF t \in DOMAIN oldIdf THEN oldIdf[t] ELSE IdfOf(N, docCount(t))]

\* The idf map is never cleared: entries of terms absent from the new
\* documents stay as they were.
calculateIDF(documents, oldIdf) ==
    LET N == Len(documents)
        terms == UNION {TermsOf(documents[i]) : i \in 1..N}
        docCount(t) == Cardinality({i \in 1..N : t \in TermsOf(documents[i])})
    IN  [t \in (DOMAIN oldIdf) \cup terms |->
            IF t \in terms THEN IdfOf(N, docCount(t)) ELSE oldIdf[t]]

BM25initialize(bm, documents) ==
    LET toks == [i \in 1..Len(documents) |-> tokenize(documents[i])]
        lens == [i \in 1..Len(toks) |-> Len(toks[i])]
    IN  [documents |-> toks, docLengths |-> lens,
         avgSum |-> SumSeq(lens), avgCount |-> Len(lens),
         idf |-> calculateIDF(toks, bm.idf)]

\* One term of the sum: idf * (tf * (k1 + 1)) / (tf + k1 * (1 - b + b * dl / avg))
\* with k1 = 1.5 and b = 0.75, that is
\* idf * 2.5 tf / (tf + 0.375 + 1.125 * dl * count / sum).
\* A corpus without any token has avg = 0 and dl = 0: 0 / 0 is NaN.
TermScore(bm, term, docIndex) ==
    LET doc == bm.documents[docIndex]
        dl == bm.docLengths[docIndex]
        tf == CountOf(doc, term)
        idf == IF term \in DOMAIN bm.idf THEN bm.idf[term] ELSE 0
    IN  IF bm.avgSum = 0 THEN NaN
        ELSE (idf * 2500 * tf * bm.avgSum)
                \div (1000 * tf * bm.avgSum + 375 * bm.avgSum
                        + 1125 * dl * bm.avgCount)

RECURSIVE SumScores(_)
SumScores(xs) ==
    IF xs = <<>> THEN 0
    ELSE LET r == SumScores(Tail(xs))
         IN  IF IsNaN(Head(xs)) \/ IsNaN(r) THEN NaN ELSE Head(xs) + r

calculateScore(bm, queryTerms, docIndex) ==
    SumScores([k \in 1..Len(queryTerms) |-> TermScore(bm, queryTerms[k], docIndex)])

getScoresOverTerms(bm, queryText) ==
    LET queryTerms == tokenize(queryText)
    IN  [k \in 1..Len(queryTerms) |-> 0]

\* One score per document of the index.
getScores(bm, queryText) ==
    LET queryTerms == tokenize(queryText)
    IN  [i \in 1..Len(bm.documents) |-> calculateScore(bm, queryTerms, i)]

\* ----------------------------------------------------------- vector store
\* The 300 buckets of the embedding that a text of the alphabet can touch.
Buckets == {charCodeAt(ch) % 300 : ch \in Letters \cup Capitals \cup {" ", ","}}

\* The embedding is the bucket counts divided by their magnitude.  It is kept
\* as the counts (its direction); the empty text has magnitude 0 and every
\* component 0 / 0 = NaN.
generateSimpleEmbedding(text) ==
    LET normalized == LowerText(text)
    IN  IF Len(text) = 0 THEN [b \in Buckets |-> NaN]
        ELSE [b \in Buckets |->
                Cardinality({i \in 1..Len(normalized) :
                                charCodeAt(normalized[i]) % 300 = b})]

RECURSIVE SumOver(_, _)
SumOver(f, S) ==
    IF S = {} THEN 0
    ELSE LET x == CHOOSE y \in S : TRUE IN f[x] + SumOver(f, S \ {x})

\* dotProduct / (sqrt(norm1) * sqrt(norm2)), in Scale units.
cosineSimilarity(vec1, vec2) ==
    IF \E b \in Buckets : IsNaN(vec1[b]) \/ IsNaN(vec2[b]) THEN NaN
    ELSE LET dot == SumOver([b \in Buckets |-> vec1[b] * vec2[b]], Buckets)
             norm1 == SumOver([b \in Buckets |-> vec1[b] * vec1[b]], Buckets)
             norm2 == SumOver([b \in Buckets |-> vec2[b] * vec2[b]], Buckets)
         IN  MathSqrt((dot * dot * Scale * Scale) \div (norm1 * norm2))

\* `chunk_${chunk.chunkId}` and its inverse parseInt(chunkId.replace('chunk_', ''))
ChunkIdString(id) == <<"chunk_", id>>
ParseChunkId(str) == str[2]

\* tagFilter is optional; undefined and '' are both falsy.
NoFilter == ""

PassesAll(chunk, tagFilter) == TRUE

\* tagFilter ? chunk.tags.includes(tagFilter) : true
PassesFilter(chunk, tagFilter) ==
    IF tagFilter # NoFilter THEN tagFilter \in chunk.tags ELSE TRUE

ComesBeforeOrTied(a, b) == ~IsNaN(a.score) /\ ~IsNaN(b.score) /\ a.score >= b.score

\* The comparator (a, b) => b.score - a.score says "b first" when it is > 0;
\* a NaN difference counts as 0.
ComesBefore(a, b) == ~IsNaN(a.score) /\ ~IsNaN(b.score) /\ a.score > b.score

\* Array.prototype.sort with that comparator: stable, descending by score.
RECURSIVE InsertSorted(_, _)
InsertSorted(x, sorted) ==
    IF sorted = <<>> THEN <<x>>
    ELSE IF ComesBefore(x, Head(sorted)) THEN <<x>> \o sorted
         ELSE <<Head(sorted)>> \o InsertSorted(x, Tail(sorted))

RECURSIVE SortByScore(_)
SortByScore(xs) ==
    IF xs = <<>> THEN <<>>
    ELSE InsertSorted(xs[Len(xs)], SortByScore(SubSeq(xs, 1, Len(xs) - 1)))

\* Array.prototype.slice(0, n)
Slice(xs, n) == SubSeq(xs, 1, IF n < Len(xs) THEN n ELSE Len(xs))

RECURSIVE SelectIndices(_, _, _)
SelectIndices(cs, tagFilter, i) ==
    IF i > Len(cs) THEN <<>>
    ELSE (IF PassesFilter(cs[i], tagFilter) THEN <<i>> ELSE <<>>)
            \o SelectIndices(cs, tagFilter, i + 1)

addChunksOffByOne(newChunks) ==
    [i \in 1..(Len(newChunks) - 1) |-> generateSimpleEmbedding(newChunks[i].content)]

\* VectorStore.addChunks: the chunks are replaced and one embedding is made
\* per chunk.
addChunksEmbeddings(newChunks) ==
    [i \in 1..Len(newChunks) |-> generateSimpleEmbedding(newChunks[i].content)]

\* A SearchResult; grade is the optional relevanceGrade, <<>> while absent.
MakeResult(chunk, score) ==
    [chunkId |-> ChunkIdString(chunk.chunkId), score |-> score,
     header |-> chunk.header, content |-> chunk.content, tags |-> chunk.tags,
     grade |-> <<>>]

semanticSearch(cs, embs, queryText, k, tagFilter) ==
    LET queryEmbedding == generateSimpleEmbedding(queryText)
        idxs == SelectIndices(cs, tagFilter, 1)
        scores == [j \in 1..Len(idxs) |->
                     [index |-> idxs[j],
                      score |-> cosineSimilarity(queryEmbedding, embs[idxs[j]])]]
        topResults == Slice(SortByScore(scores), k)
    IN  [j \in 1..Len(topResults) |->
            MakeResult(cs[topResults[j].index], topResults[j].score)]

\* VectorStore.getChunkById: the first chunk with that id, or undefined.
Undefined == [undefined |-> TRUE]

getChunkById(cs, chunkIdStr) ==
    LET id == ParseChunkId(chunkIdStr)
        hits == {i \in 1..Len(cs) : cs[i].chunkId = id}
    IN  IF hits = {} THEN Undefined
        ELSE cs[CHOOSE i \in hits : \A j \in hits : i <= j]

\* ---------------------------------------------------------- hybrid search
\* x || 0 on a number: 0 for undefined (index out of range), NaN and 0.
OrZero(xs, i) == IF i \in DOMAIN xs /\ ~IsNaN(xs[i]) THEN xs[i] ELSE 0

\* Math.max over a possibly empty list, then the test max > 0.
MaxOrZero(xs) == IF Len(xs) > 0 THEN MathMax(xs) ELSE 0

Normalize(x, max) ==
    IF ~IsNaN(max) /\ max > 0
    THEN (IF IsNaN(x) THEN NaN ELSE (x * Scale) \div max)
    ELSE 0

CombineSwapped(alpha, semScore, bm25Score) ==
    ((Scale - alpha) * semScore + alpha * bm25Score) \div Scale

\* alpha * semScore + (1 - alpha) * bm25Score
Combine(alpha, semScore, bm25Score) ==
    (alpha * semScore + (Scale - alpha) * bm25Score) \div Scale

\* The combinedScores array that search builds: the combined score of every
\* candidate, in candidate order, before the sort and the cut.
CombinedScores(cs, embs, bm, queryText, k, alpha, tagFilter) ==
    LET semanticResults == semanticSearch(cs, embs, queryText, k * 2, tagFilter)
        bm25Scores == getScores(bm, queryText)
        maxDist == MaxOrZero([j \in 1..Len(semanticResults) |-> semanticResults[j].score])
        semHits(id) == {j \in 1..Len(semanticResults) : semanticResults[j].chunkId = id}
        \* Map.set keeps the last value written for a key.
        semanticScore(id) ==
            IF semHits(id) = {} THEN 0
            ELSE LET j == CHOOSE x \in semHits(id) : \A y \in semHits(id) : y <= x
                     n == Normalize(semanticResults[j].score, maxDist)
                 IN  IF IsNaN(n) THEN 0 ELSE n
        candidateIndices == SelectIndices(cs, tagFilter, 1)
        bm25Candidates == [j \in 1..Len(candidateIndices) |->
                              OrZero(bm25Scores, candidateIndices[j])]
        maxBM25 == MaxOrZero(bm25Candidates)
    IN  [j \in 1..Len(candidateIndices) |->
            LET index == candidateIndices[j]
                chunkId == ChunkIdString(cs[index].chunkId)
                semScore == semanticScore(chunkId)
                bm25Score == IF maxBM25 > 0
                             THEN (OrZero(bm25Scores, index) * Scale) \div maxBM25
                             ELSE 0
            IN  [chunkId |-> chunkId, score |-> Combine(alpha, semScore, bm25Score)]]

\* HybridSearcher.search: combinedScores sorted by score, cut at k and looked
\* up in the store.
HybridSearch(cs, embs, bm, queryText, k, alpha, tagFilter) ==
    LET semanticResults == semanticSearch(cs, embs, queryText, k * 2, tagFilter)
        bm25Scores == getScores(bm, queryText)
        maxDist == MaxOrZero([j \in 1..Len(semanticResults) |-> semanticResults[j].score])
        semHits(id) == {j \in 1..Len(semanticResults) : semanticResults[j].chunkId = id}
        \* Map.set keeps the last value written for a key.
        semanticScore(id) ==
            IF semHits(id) = {} THEN 0
            ELSE LET j == CHOOSE x \in semHits(id) : \A y \in semHits(id) : y <= x
                     n == Normalize(semanticResults[j].score, maxDist)
                 IN  IF IsNaN(n) THEN 0 ELSE n
        candidateIndices == SelectIndices(cs, tagFilter, 1)
        bm25Candidates == [j \in 1..Len(candidateIndices) |->
                              OrZero(bm25Scores, candidateIndices[j])]
        maxBM25 == MaxOrZero(bm25Candidates)
        combinedScores ==
            [j \in 1..Len(candidateIndices) |->
                LET index == candidateIndices[j]
                    chunkId == ChunkIdString(cs[index].chunkId)
                    semScore == semanticScore(chunkId)
                    bm25Score == IF maxBM25 > 0
                                 THEN (OrZero(bm25Scores, index) * Scale) \div maxBM25
                                 ELSE 0
                IN  [chunkId |-> chunkId, score |-> Combine(alpha, semScore, bm25Score)]]
        topChunks == Slice(SortByScore(combinedScores), k)
    IN  [j \in 1..Len(topChunks) |->
            MakeResult(getChunkById(cs, topChunks[j].chunkId), topChunks[j].score)]

\* ------------------------------------------------ the grader and rewriter
\* What the chat completion call of the grader can do: raise, or answer with
\* lines "KEY: value".
Raised == [raised |-> TRUE, content |-> <<>>]
Answer(content) == [raised |-> FALSE, content |-> content]

Line(key, value) == [key |-> key, value |-> value]

GraderResponses ==
    { Raised,
      Answer(<<>>),
      Answer(<<Line("RELEVANT:", "yes"), Line("SCORE:", "HIGH"), Line("REASON:", "r")>>),
      Answer(<<Line("RELEVANT:", "yes"), Line("SCORE:", "medium"), Line("REASON:", "r")>>),
      Answer(<<Line("RELEVANT:", "yes"), Line("SCORE:", "low"), Line("REASON:", "r")>>),
      Answer(<<Line("RELEVANT:", "yes"), Line("SCORE:", "excellent"), Line("REASON:", "r")>>),
      Answer(<<Line("RELEVANT:", "no"), Line("SCORE:", "high"), Line("REASON:", "r")>>),
      Answer(<<Line("NOTE:", "x"), Line("SCORE:", "high"), Line("REASON:", "r")>>) }

LowerWord(w) == IF w = "HIGH" THEN "high" ELSE w

\* The loop over the lines of the answer: later lines overwrite earlier ones.
RECURSIVE ParseGrade(_, _)
ParseGrade(lines, grade) ==
    IF lines = <<>> THEN grade
    ELSE LET line == Head(lines)
             next ==
                IF line.key = "RELEVANT:"
                THEN [grade EXCEPT !.relevant = (LowerWord(line.value) = "yes")]
                ELSE IF line.key = "SCORE:"
                THEN (IF LowerWord(line.value) \in {"high", "medium", "low"}
                      THEN [grade EXCEPT !.score = LowerWord(line.value)]
                      ELSE grade)
                ELSE IF line.key = "REASON:"
                THEN [grade EXCEPT !.reason = line.value]
                ELSE grade
         IN  ParseGrade(Tail(lines), next)

gradeChunkRelevance(response) ==
    IF response.raised
    THEN [relevant |-> TRUE, score |-> "medium", reason |-> "Error during grading"]
    ELSE ParseGrade(response.content,
                    [relevant |-> FALSE, score |-> "low", reason |-> "Unknown"])

\* What the chat completion call of the rewriter can do: raise, or answer with
\* a text (possibly empty, possibly padded with spaces).
RewriterResponses == {Raised, Answer(<<>>), Answer(<<" ">>), Answer(<<" ", "c">>)}

\* content?.trim() || originalQuery, and originalQuery when the call raises.
rewriteQuery(originalQuery, response) ==
    IF response.raised THEN originalQuery
    ELSE IF Trim(response.content) = <<>> THEN originalQuery
    ELSE Trim(response.content)

\* ---------------------------------------------------- regular expressions
\* A regular expression is a tree of records.  Ends(re, text, pos) is the
\* sequence of the positions where a match of re that starts at pos can end,
\* in the order in which a backtracking matcher tries them: its head is the
\* end of the match the matcher reports.
Class(set) == [t |-> "class", set |-> set, neg |-> FALSE]
NotClass(set) == [t |-> "class", set |-> set, neg |-> TRUE]
Concat(parts) == [t |-> "seq", parts |-> parts]
OneOrMore(of) == [t |-> "plus", of |-> of, greedy |-> TRUE]
OneOrMoreLazy(of) == [t |-> "plus", of |-> of, greedy |-> FALSE]
ZeroOrMore(of) == [t |-> "star", of |-> of]
UpTo(of, max) == [t |-> "upto", of |-> of, max |-> max]
Either(alts) == [t |-> "alt", alts |-> alts]
LookAhead(of) == [t |-> "ahead", of |-> of]
LookBehind(set) == [t |-> "behind", set |-> set]
LineStart == [t |-> "bol"]
TextStart == [t |-> "bos"]

InClass(class, ch) == (ch \in class.set) # class.neg

RECURSIVE Ends(_, _, _)
RECURSIVE EndsFrom(_, _, _)
RECURSIVE MoreFrom(_, _, _)
RECURSIVE EndsOfEach(_, _, _)

\* The ends of re from each of the starts, in order.
EndsFrom(re, text, starts) ==
    IF Len(starts) = 0 THEN <<>>
    ELSE IF Len(starts) = 1 THEN Ends(re, text, starts[1])
    ELSE LET half == Len(starts) \div 2
         IN  EndsFrom(re, text, SubSeq(starts, 1, half))
                \o EndsFrom(re, text, SubSeq(starts, half + 1, Len(starts)))

\* A counted repetition after one more match of its operand ended at one of
\* firsts: more repetitions (next) are tried first.
MoreFrom(next, text, firsts) ==
    IF firsts = <<>> THEN <<>>
    ELSE (Ends(next, text, Head(firsts)) \o <<Head(firsts)>>)
            \o MoreFrom(next, text, Tail(firsts))

EndsOfEach(alts, text, pos) ==
    IF alts = <<>> THEN <<>>
    ELSE Ends(Head(alts), text, pos) \o EndsOfEach(Tail(alts), text, pos)

\* OneOrMore is applied to classes, ZeroOrMore to expressions that match no
\* empty text.
Ends(re, text, pos) ==
    CASE re.t = "class" ->
            IF pos <= Len(text) /\ InClass(re, text[pos]) THEN <<pos + 1>> ELSE <<>>
      [] re.t = "seq" ->
            IF re.parts = <<>> THEN <<pos>>
            ELSE EndsFrom(Concat(Tail(re.parts)), text, Ends(Head(re.parts), text, pos))
      [] re.t = "plus" ->
            \* the run of characters of the class from pos stops before stop;
            \* greedy tries the longest match first, lazy the shortest
            LET stop == CHOOSE i \in pos..(Len(text) + 1) :
                            /\ (i = Len(text) + 1 \/ ~InClass(re.of, text[i]))
                            /\ \A j \in pos..(i - 1) : InClass(re.of, text[j])
            IN  [k \in 1..(stop - pos) |-> IF re.greedy THEN stop - k + 1 ELSE pos + k]
      [] re.t = "star" ->
            EndsFrom(re, text, Ends(re.of, text, pos)) \o <<pos>>
      [] re.t = "upto" ->
            MoreFrom(IF re.max > 1 THEN UpTo(re.of, re.max - 1) ELSE [t |-> "fail"],
                     text, Ends(re.of, text, pos))
      [] re.t = "alt" -> EndsOfEach(re.alts, text, pos)
      [] re.t = "ahead" -> IF Ends(re.of, text, pos) # <<>> THEN <<pos>> ELSE <<>>
      [] re.t = "behind" ->
            IF pos > 1 /\ text[pos - 1] \in re.set THEN <<pos>> ELSE <<>>
      [] re.t = "bol" -> IF pos = 1 \/ text[pos - 1] = "\n" THEN <<pos>> ELSE <<>>
      [] re.t = "bos" -> IF pos = 1 THEN <<pos>> ELSE <<>>
      [] re.t = "fail" -> <<>>

\* A match as exec reports it: index and end count the characters before the
\* match and before its end.
NoMatch == [index |-> -1, end |-> -1]

\* RegExp.prototype.exec from a position (1 is the start of the text): the
\* leftmost match.
exec(re, text, from) ==
    LET starts == {i \in from..(Len(text) + 1) : Ends(re, text, i) # <<>>}
    IN  IF starts = {} THEN NoMatch
        ELSE LET first == CHOOSE i \in starts : \A j \in starts : i <= j
             IN  [index |-> first - 1, end |-> Head(Ends(re, text, first)) - 1]

\* String.prototype.matchAll, and the exec loop, of a global expression.
RECURSIVE matchAll(_, _, _)
matchAll(re, text, from) ==
    LET m == exec(re, text, from)
    IN  IF m.index < 0 THEN <<>>
        ELSE <<m>> \o matchAll(re, text, IF m.end > m.index THEN m.end + 1 ELSE m.end + 2)

\* String.prototype.split by an expression that matches no empty text; from
\* is where the piece being read starts.
RECURSIVE split(_, _, _)
split(re, text, from) ==
    LET m == exec(re, text, from)
    IN  IF m.index < 0 THEN <<SubSeq(text, from, Len(text))>>
        ELSE <<SubSeq(text, from, m.index)>> \o split(re, text, m.end + 1)

Whitespace == Class(SpaceChars)
Newline == Class({"\n"})
Bar == Class({"|"})
\* [^\n], and . without the s flag
NotNewline == NotClass({"\n"})
\* #{1,3}\s+
HeadingStart == Concat(<<UpTo(Class({"#"}), 3), OneOrMore(Whitespace)>>)

\* /(\|[^\n]+\|[\n\r]+\|[-:\s|]+\|[\n\r]+(?:\|[^\n]+\|[\n\r]+)*)/g
TablePattern ==
    Concat(<<Bar, OneOrMore(NotNewline), Bar, OneOrMore(Newline),
          Bar, OneOrMore(Class({"-", ":", "|"} \cup SpaceChars)), Bar, OneOrMore(Newline),
          ZeroOrMore(Concat(<<Bar, OneOrMore(NotNewline), Bar, OneOrMore(Newline)>>))>>)

\* /(^#{1,3}\s+.+?)(?=\n#{1,3}\s+|\Z)/gms: with the s flag . is every
\* character; without the u flag \Z is the letter Z.
HeaderPattern ==
    Concat(<<LineStart, HeadingStart, OneOrMoreLazy(NotClass({})),
          LookAhead(Either(<<Concat(<<Newline, HeadingStart>>), Class({"Z"})>>))>>)

\* /\n\n+/
ParagraphBreak == Concat(<<Newline, OneOrMore(Newline)>>)
\* /(?<=[.!?])\s+/
SentenceBreak == Concat(<<LookBehind({".", "!", "?"}), OneOrMore(Whitespace)>>)
\* /\s+/
WordBreak == OneOrMore(Whitespace)

\* ----------------------------------------------------------- the chunker
\* `${n}` of a whole number n >= 0
RECURSIVE NumberText(_)
NumberText(n) ==
    LET digit == <<"0", "1", "2", "3", "4", "5", "6", "7", "8", "9">>[(n % 10) + 1]
    IN  IF n < 10 THEN <<digit>> ELSE NumberText(n \div 10) \o <<digit>>

\* extractTables: where the tables of the text start and end.
extractTables(markdownText) == matchAll(TablePattern, markdownText, 1)

\* currentChunk.length > overlap ? currentChunk.slice(-overlap) : currentChunk;
\* slice(-0) is slice(0), the whole text.
OverlapText(currentChunk, overlap) ==
    IF Len(currentChunk) > overlap /\ overlap # 0
    THEN SubSeq(currentChunk, Len(currentChunk) - overlap + 1, Len(currentChunk))
    ELSE currentChunk

RECURSIVE recursiveChunkWithOverlap(_, _, _)
RECURSIVE PackPieces(_, _, _, _, _, _, _)

\* The three loops of recursiveChunkWithOverlap, over paragraphs joined by
\* "\n\n", over sentences and over words joined by " ".  A piece that does
\* not fit an empty currentChunk is chunked again (paragraph, sentence) or
\* cut at maxSize (word).
PackPieces(level, pieces, sep, maxSize, overlap, chunks, currentChunk) ==
    IF pieces = <<>>
    THEN (IF currentChunk # <<>> THEN Append(chunks, currentChunk) ELSE chunks)
    ELSE LET piece == Head(pieces)
             rest == Tail(pieces)
         IN  IF Len(currentChunk) + Len(piece) + Len(sep) <= maxSize
             THEN PackPieces(level, rest, sep, maxSize, overlap, chunks,
                             currentChunk \o (IF currentChunk # <<>> THEN sep ELSE <<>>) \o piece)
             ELSE IF currentChunk # <<>>
             THEN PackPieces(level, rest, sep, maxSize, overlap,
                             Append(chunks, currentChunk),
                             OverlapText(currentChunk, overlap) \o sep \o piece)
             ELSE IF level = "word"
             THEN PackPieces(level, rest, sep, maxSize, overlap,
                             Append(chunks, SubSeq(piece, 1, maxSize)),
                             SubSeq(piece, maxSize + 1, Len(piece)))
             ELSE LET subChunks == recursiveChunkWithOverlap(piece, maxSize, overlap)
                  IN  IF subChunks = <<>>
                      THEN PackPieces(level, rest, sep, maxSize, overlap, chunks, <<>>)
                      ELSE PackPieces(level, rest, sep, maxSize, overlap,
                                      chunks \o SubSeq(subChunks, 1, Len(subChunks) - 1),
                                      subChunks[Len(subChunks)])

recursiveChunkWithOverlap(text, maxSize, overlap) ==
    IF Len(text) <= maxSize THEN <<text>>
    ELSE LET paragraphs == split(ParagraphBreak, text, 1)
             sentences == split(SentenceBreak, text, 1)
             words == split(WordBreak, text, 1)
         IN  IF Len(paragraphs) > 1
             THEN PackPieces("paragraph", paragraphs, <<"\n", "\n">>, maxSize, overlap, <<>>, <<>>)
             ELSE IF Len(sentences) > 1
             THEN PackPieces("sentence", sentences, <<" ">>, maxSize, overlap, <<>>, <<>>)
             ELSE PackPieces("word", words, <<" ">>, maxSize, overlap, <<>>, <<>>)

\* `${header} (Part ${index + 1})`
PartHeader(header, part) ==
    header \o <<" ", "(", "P", "a", "r", "t", " ">> \o NumberText(part) \o <<")">>

splitLargeChunkUntrimmed(chunkContent, header, maxSize, overlap) ==
    LET splitTexts == recursiveChunkWithOverlap(chunkContent, maxSize, overlap)
    IN  [index \in 1..Len(splitTexts) |->
            [header |-> IF Len(splitTexts) > 1 THEN PartHeader(header, index) ELSE header,
             content |-> Trim(splitTexts[index]),
             charCount |-> Len(splitTexts[index]),
             containsTable |-> FALSE]]

splitLargeChunk(chunkContent, header, maxSize, overlap) ==
    LET splitTexts == recursiveChunkWithOverlap(chunkContent, maxSize, overlap)
    IN  [index \in 1..Len(splitTexts) |->
            [header |-> IF Len(splitTexts) > 1 THEN PartHeader(header, index) ELSE header,
             content |-> Trim(splitTexts[index]),
             charCount |-> Len(Trim(splitTexts[index])),
             containsTable |-> FALSE]]

\* The no-heading path: `Chunk ${index + 1}` over the texts of
\* recursiveChunkWithOverlap, untrimmed.
FallbackChunks(markdownText, cfg) ==
    LET chunkTexts == recursiveChunkWithOverlap(markdownText, cfg.maxChunkSize, cfg.overlap)
    IN  [index \in 1..Len(chunkTexts) |->
            [header |-> <<"C", "h", "u", "n", "k", " ">> \o NumberText(index),
             content |-> chunkTexts[index],
             charCount |-> Len(chunkTexts[index]),
             containsTable |-> FALSE]]

\* chunkText.match(/^(#{1,3}\s+)(.+)/): the second group, trimmed, or
\* 'Unknown'.
HeaderOf(chunkText) ==
    LET firstEnds == Ends(Concat(<<TextStart, HeadingStart>>), chunkText, 1)
        usable == SelectSeq(firstEnds,
                            LAMBDA e : Ends(OneOrMore(NotNewline), chunkText, e) # <<>>)
    IN  IF usable = <<>> THEN <<"U", "n", "k", "n", "o", "w", "n">>
        ELSE LET e1 == Head(usable)
                 e2 == Head(Ends(OneOrMore(NotNewline), chunkText, e1))
             IN  Trim(SubSeq(chunkText, e1, e2 - 1))

\* The body of for (const match of matches): one raw chunk per match, none
\* for a match that trims to nothing.
RawChunkOf(markdownText, match, tableRanges) ==
    LET chunkText == Trim(SubSeq(markdownText, match.index + 1, match.end))
        chunkStart == match.index
        chunkEnd == chunkStart + Len(chunkText)
    IN  IF chunkText = <<>> THEN <<>>
        ELSE << [header |-> HeaderOf(chunkText),
                 content |-> chunkText,
                 charCount |-> Len(chunkText),
                 containsTable |->
                    \E r \in 1..Len(tableRanges) :
                        LET start == tableRanges[r].index
                            end == tableRanges[r].end
                        IN  \/ (chunkStart <= start /\ start < chunkEnd)
                            \/ (chunkStart < end /\ end <= chunkEnd)] >>

RECURSIVE RawChunks(_, _, _)
RawChunks(markdownText, matches, tableRanges) ==
    IF matches = <<>> THEN <<>>
    ELSE RawChunkOf(markdownText, Head(matches), tableRanges)
            \o RawChunks(markdownText, Tail(matches), tableRanges)

\* The inner while: following raw chunks are appended while the content is
\* shorter than minChunkSize and the next raw chunk has no table.
RECURSIVE CombineNext(_, _, _, _, _)
CombineNext(rawChunks, j, combinedContent, combinedHeader, minChunkSize) ==
    IF j <= Len(rawChunks) /\ Len(combinedContent) < minChunkSize
          /\ ~rawChunks[j].containsTable
    THEN CombineNext(rawChunks, j + 1,
                     combinedContent \o <<"\n", "\n">> \o rawChunks[j].content,
                     combinedHeader \o <<" ", "+", " ">> \o rawChunks[j].header,
                     minChunkSize)
    ELSE [content |-> combinedContent, header |-> combinedHeader, j |-> j]

\* The outer while over rawChunks, from position i.
RECURSIVE ProcessChunks(_, _, _)
ProcessChunks(rawChunks, i, cfg) ==
    IF i > Len(rawChunks) THEN <<>>
    ELSE LET current == rawChunks[i]
         IN  IF current.containsTable
             THEN <<current>> \o ProcessChunks(rawChunks, i + 1, cfg)
             ELSE IF current.charCount < cfg.minChunkSize
             THEN LET c == CombineNext(rawChunks, i + 1, current.content,
                                       current.header, cfg.minChunkSize)
                  IN  (IF Len(c.content) > cfg.maxChunkSize
                       THEN splitLargeChunk(c.content, c.header, cfg.maxChunkSize, cfg.overlap)
                       ELSE << [header |-> c.header,
                                content |-> c.content,
                                charCount |-> Len(c.content),
                                containsTable |-> FALSE] >>)
                          \o ProcessChunks(rawChunks, c.j, cfg)
             ELSE IF current.charCount > cfg.maxChunkSize
             THEN splitLargeChunk(current.content, current.header,
                                  cfg.maxChunkSize, cfg.overlap)
                     \o ProcessChunks(rawChunks, i + 1, cfg)
             ELSE <<current>> \o ProcessChunks(rawChunks, i + 1, cfg)

chunkDocument(markdownText, cfg) ==
    IF markdownText = <<>> \/ Trim(markdownText) = <<>> THEN <<>>
    ELSE LET tableRanges == extractTables(markdownText)
             matches == matchAll(HeaderPattern, markdownText, 1)
         IN  IF Len(matches) = 0 THEN FallbackChunks(markdownText, cfg)
             ELSE ProcessChunks(RawChunks(markdownText, matches, tableRanges), 1, cfg)

\* A table of a header row, a separator row and one data row.
TableText ==
    <<"|", "a", "|", "b", "|", "\n", "|", "-", "|", "-", "|", "\n", "|", "a", "|", "b", "|">>

\* The texts given to chunkDocument are made of blocks: two sections, a
\* section with a table between two paragraphs, paragraphs without heading
\* (with a Z), a line of four hashes, and one long word.
SectionBlocks ==
    { <<"#", " ", "a", "\n", "b", "b", " ", "b", "b", ".", "\n">>,
      <<"#", "#", " ", "b", "\n", "a", "a", "a", "a", " ", "a", "a", "a", "a", ".", " ", "a", "a", "\n", "\n", "a", "a", "a", "a", "\n">> }

Blocks ==
    SectionBlocks \cup
    {
      <<"#", "#", "#", " ", "t", "\n", "b", "\n", "\n">> \o TableText \o <<"\n", "\n", "b", "\n">>,
      <<"a", "a", " ", "b", "b", ".", " ", "a", "Z", "\n", "\n", "b", "b", "\n">>,
      <<"#", "#", "#", "#", " ", "a", "\n">>,
      <<"a", "a", "a", "a", "a", "a", "a", "a", "a", "a", "a", "a", "a", "\n">> }

RECURSIVE TextsOf(_)
TextsOf(n) ==
    IF n = 0 THEN {<<>>}
    ELSE TextsOf(n - 1) \cup {t \o b : t \in TextsOf(n - 1), b \in Blocks}

Configs ==
    { [minChunkSize |-> 12, maxChunkSize |-> 20, overlap |-> 3],
      [minChunkSize |-> 5, maxChunkSize |-> 10, overlap |-> 0],
      [minChunkSize |-> 30, maxChunkSize |-> 40, overlap |-> 5],
      [minChunkSize |-> 40, maxChunkSize |-> 60, overlap |-> 5] }

\* ------------------------------------------------------------- the corpus
PoolContent(id) ==
    CASE id % 4 = 0 -> <<"a", " ", "b">>
      [] id % 4 = 1 -> <<"b", " ", "c">>
      [] id % 4 = 2 -> <<"A", ",", "c">>
      [] id % 4 = 3 -> <<"c", " ", "c">>

PoolChunk(id) ==
    [chunkId |-> id, header |-> "h", content |-> PoolContent(id),
     tags |-> IF id % 2 = 0 THEN {"<summary>"} ELSE {"<findings>"}]

\* The tagged chunks of a document of n chunks: ids dense from 0.
Corpus(n) == [i \in 1..n |-> PoolChunk(i - 1)]

Queries == {<<"a">>, <<"b", " ", "c">>}

\* ---------------------------------------------------------------- state
VARIABLES
    chunks,             \* VectorStore.chunks
    embeddings,         \* VectorStore.embeddings
    bm25,               \* HybridSearcher.bm25
    query,              \* correctiveRAGRetrieval's arguments
    maxIterations,
    topK,
    currentQuery,       \* its locals
    iteration,
    allRelevantChunks,
    retrievedChunks,
    gradeIdx,           \* position of the for loop over retrievedChunks
    pc,
    result,
    searchLog,          \* history: queries of the searches made inside the loop
    fallbackLog,        \* history: <<query, topK>> of the searches made after it
    graderLog,          \* history: the queries given to the grader
    graderCalls,        \* history: the number of grader calls
    lastGrader,         \* history: how the latest grader call ended
    rewriterLog,        \* history: the queries given to the rewriter
    lastRewrite,        \* history: how the latest rewriter call ended
    searchArgs,         \* the arguments the caller of the searcher searches with
    call,               \* the latest call on the store or the searcher, with
                        \* its arguments and what it returned
    markdownText,       \* chunkDocument's arguments
    config,
    processedChunks,    \* what chunkDocument returned
    html,               \* the pipeline's HTML text beside markdownText
    stage               \* the pipeline's position

vars ==
    <<chunks, embeddings, bm25, query, maxIterations, topK, currentQuery,
      iteration, allRelevantChunks, retrievedChunks, gradeIdx, pc, result,
      searchLog, fallbackLog, graderLog, graderCalls, lastGrader, rewriterLog,
      lastRewrite, searchArgs, call, markdownText, config, processedChunks,
      html, stage>>

storeVars == <<chunks, embeddings, bm25>>
argVars == <<query, maxIterations, topK>>
chunkerVars == <<markdownText, config, processedChunks>>
pipelineVars == <<html, stage>>
libVars == <<searchArgs, call, chunkerVars, pipelineVars>>

\* alpha of the controller's searches.
AlphaHalf == 500
\* The number of accepted chunks that ends the loop.
Sufficient == 3

NoResult == [none |-> TRUE]
NoCall == [op |-> "none"]
NotChunked == [returned |-> FALSE, chunks |-> <<>>]

\* No call on the store or the searcher is recorded, and chunkDocument is
\* not in use.
ChunkerIdle == markdownText = <<>> /\ config = NoResult /\ processedChunks = NotChunked
PipelineIdle == html = <<>> /\ stage = "idle"
LibraryIdle == searchArgs = NoResult /\ call = NoCall /\ ChunkerIdle /\ PipelineIdle

\* hybridSearcher.search(q, k, 0.5) on the current store.
Search(q, k) == HybridSearch(chunks, embeddings, bm25, q, k, AlphaHalf, NoFilter)

\* The state at the call of correctiveRAGRetrieval: a store built by addChunks
\* over a document's chunks and a searcher initialized over it, as the
\* pipeline leaves them.  maxIterations is a whole number; topK goes up to
\* the sufficiency threshold, so that one search can end the loop.
Init ==
    /\ \E n \in 0..MaxChunks :
          /\ chunks = Corpus(n)
          /\ embeddings = addChunksEmbeddings(Corpus(n))
          /\ bm25 = BM25initialize(BM25New, [i \in 1..n |-> Corpus(n)[i].content])
    /\ query \in Queries
    /\ maxIterations \in 0..MaxIter
    /\ topK \in 0..Sufficient
    /\ currentQuery = query
    /\ iteration = 0
    /\ allRelevantChunks = <<>>
    /\ retrievedChunks = <<>>
    /\ gradeIdx = 0
    /\ pc = "loop"
    /\ result = NoResult
    /\ searchLog = <<>>
    /\ fallbackLog = <<>>
    /\ graderLog = {}
    /\ graderCalls = 0
    /\ lastGrader = "none"
    /\ rewriterLog = <<>>
    /\ lastRewrite = "none"
    /\ LibraryIdle

\* --------------------------------------------------------- the controller
LoopConditionInclusive == iteration <= maxIterations

\* while (iteration < maxIterations)
LoopCondition == iteration < maxIterations

\* if (iteration < maxIterations) before the rewrite of an insufficient pass
IterationsRemain == iteration < maxIterations

FallbackSkipped == FALSE

\* if (allRelevantChunks.length === 0) after the loop
FallbackNeeded == Len(allRelevantChunks) = 0

FallbackWithCurrentQuery == currentQuery

\* The query of the fallback search.
FallbackQuery == query

\* The loop is entered: iteration++, then the search with currentQuery.
SearchStep ==
    /\ pc = "loop"
    /\ LoopCondition
    /\ iteration' = iteration + 1
    /\ retrievedChunks' = Search(currentQuery, topK)
    /\ searchLog' = Append(searchLog, currentQuery)
    /\ gradeIdx' = 1
    /\ pc' = IF Len(retrievedChunks') = 0 THEN "rewriteEmpty" ELSE "grade"
    /\ lastRewrite' = "none"
    /\ UNCHANGED <<libVars, storeVars, argVars, currentQuery, allRelevantChunks, result,
                   fallbackLog, graderLog, graderCalls, lastGrader, rewriterLog>>

\* The loop condition fails.
LoopExit ==
    /\ pc = "loop"
    /\ ~LoopCondition
    /\ pc' = "fallback"
    /\ UNCHANGED <<libVars, storeVars, argVars, currentQuery, iteration, allRelevantChunks,
                   retrievedChunks, gradeIdx, result, searchLog, fallbackLog,
                   graderLog, graderCalls, lastGrader, rewriterLog, lastRewrite>>

\* rewriteQuery catches what the call raises and returns originalQuery: the
\* loop goes on in either case.
AfterRewriterCall(response) == "loop"

\* if (retrievedChunks.length === 0) { currentQuery = await rewriteQuery(
\*   groqClient, currentQuery, config, 'No results found'); continue; }
RewriteNoResults ==
    /\ pc = "rewriteEmpty"
    /\ \E response \in RewriterResponses :
          /\ currentQuery' = rewriteQuery(currentQuery, response)
          /\ lastRewrite' = IF response.raised THEN "failed" ELSE "answered"
          /\ pc' = AfterRewriterCall(response)
    /\ rewriterLog' = Append(rewriterLog, currentQuery)
    /\ retrievedChunks' = <<>>
    /\ gradeIdx' = 0
    /\ UNCHANGED <<libVars, storeVars, argVars, iteration, allRelevantChunks, result,
                   searchLog, fallbackLog, graderLog, graderCalls, lastGrader>>

IsAcceptedAnyScore(grade) == grade.relevant

\* if (grade.relevant && (grade.score === 'high' || grade.score === 'medium'))
IsAccepted(grade) == grade.relevant /\ (grade.score = "high" \/ grade.score = "medium")

NeverAlreadyIn(list, chunk) == FALSE

\* allRelevantChunks.some(c => c.chunkId === chunk.chunkId)
AlreadyIn(list, chunk) == \E i \in 1..Len(list) : list[i].chunkId = chunk.chunkId

GraderGivenCurrentQuery == currentQuery

\* The query the grader is given.
GraderQuery == query

GraderErrorPropagates(response) == IF response.raised THEN "aborted" ELSE "grade"

\* gradeChunkRelevance catches what the call raises and returns a grade: the
\* for loop goes on in either case.
AfterGraderCall(response) == "grade"

\* One pass of the body of for (const chunk of retrievedChunks).
GradeStep ==
    /\ pc = "grade"
    /\ gradeIdx <= Len(retrievedChunks)
    /\ \E response \in GraderResponses :
          LET grade == gradeChunkRelevance(response)
              chunk == [retrievedChunks[gradeIdx] EXCEPT !.grade = <<grade>>]
          IN  /\ retrievedChunks' = [retrievedChunks EXCEPT ![gradeIdx] = chunk]
              /\ allRelevantChunks' =
                    IF IsAccepted(grade) /\ ~AlreadyIn(allRelevantChunks, chunk)
                    THEN Append(allRelevantChunks, chunk)
                    ELSE allRelevantChunks
              /\ lastGrader' = IF response.raised THEN "error" ELSE "ok"
              /\ pc' = AfterGraderCall(response)
    /\ graderLog' = graderLog \cup {GraderQuery}
    /\ graderCalls' = graderCalls + 1
    /\ gradeIdx' = gradeIdx + 1
    /\ UNCHANGED <<libVars, storeVars, argVars, currentQuery, iteration, result,
                   searchLog, fallbackLog, rewriterLog, lastRewrite>>

SufficientContinue ==
    /\ pc = "grade"
    /\ gradeIdx > Len(retrievedChunks)
    /\ Len(allRelevantChunks) >= Sufficient
    /\ retrievedChunks' = <<>>
    /\ gradeIdx' = 0
    /\ pc' = "loop"
    /\ UNCHANGED <<libVars, storeVars, argVars, currentQuery, iteration, allRelevantChunks,
                   result, searchLog, fallbackLog, graderLog, graderCalls, lastGrader,
                   rewriterLog, lastRewrite>>

\* if (allRelevantChunks.length >= 3) break;
SufficientBreak ==
    /\ pc = "grade"
    /\ gradeIdx > Len(retrievedChunks)
    /\ Len(allRelevantChunks) >= Sufficient
    /\ retrievedChunks' = <<>>
    /\ gradeIdx' = 0
    /\ pc' = "fallback"
    /\ UNCHANGED <<libVars, storeVars, argVars, currentQuery, iteration, allRelevantChunks,
                   result, searchLog, fallbackLog, graderLog, graderCalls, lastGrader,
                   rewriterLog, lastRewrite>>

\* Not sufficient: if (iteration < maxIterations) rewrite, else back to the
\* loop condition.
Insufficient ==
    /\ pc = "grade"
    /\ gradeIdx > Len(retrievedChunks)
    /\ ~(Len(allRelevantChunks) >= Sufficient)
    /\ retrievedChunks' = <<>>
    /\ gradeIdx' = 0
    /\ pc' = IF IterationsRemain THEN "rewrite" ELSE "loop"
    /\ UNCHANGED <<libVars, storeVars, argVars, currentQuery, iteration, allRelevantChunks,
                   result, searchLog, fallbackLog, graderLog, graderCalls, lastGrader,
                   rewriterLog, lastRewrite>>

\* currentQuery = await rewriteQuery(groqClient, query, config, feedback)
RewriteInsufficient ==
    /\ pc = "rewrite"
    /\ \E response \in RewriterResponses :
          /\ currentQuery' = rewriteQuery(query, response)
          /\ lastRewrite' = IF response.raised THEN "failed" ELSE "answered"
          /\ pc' = AfterRewriterCall(response)
    /\ rewriterLog' = Append(rewriterLog, query)
    /\ UNCHANGED <<libVars, storeVars, argVars, iteration, allRelevantChunks, retrievedChunks,
                   gradeIdx, result, searchLog, fallbackLog, graderLog, graderCalls,
                   lastGrader>>

ResultIterationsBudget == maxIterations

\* iterations: iteration of the returned object
ResultIterations == iteration

ResultTotalFoundBeforeFallback == Len(allRelevantChunks)

\* totalFound: allRelevantChunks.length of the returned object, read after the
\* fallback has pushed its results.
ResultTotalFound == Len(allRelevantChunks')

\* After the loop: the fallback search when nothing was accepted, then the
\* result.
Finish ==
    /\ pc = "fallback"
    /\ IF FallbackNeeded
       THEN /\ allRelevantChunks' = allRelevantChunks \o Search(FallbackQuery, topK)
            /\ fallbackLog' = Append(fallbackLog, <<FallbackQuery, topK>>)
       ELSE UNCHANGED <<allRelevantChunks, fallbackLog>>
    /\ result' = [query |-> query, finalQuery |-> currentQuery,
                  iterations |-> ResultIterations,
                  relevantChunks |-> allRelevantChunks',
                  totalFound |-> ResultTotalFound]
    /\ pc' = "done"
    /\ UNCHANGED <<libVars, storeVars, argVars, currentQuery, iteration, retrievedChunks,
                   gradeIdx, searchLog, graderLog, graderCalls, lastGrader,
                   rewriterLog, lastRewrite>>

Next ==
    \/ SearchStep
    \/ LoopExit
    \/ RewriteNoResults
    \/ GradeStep
    \/ SufficientBreak
    \/ Insufficient
    \/ RewriteInsufficient
    \/ Finish

Spec == Init /\ [][Next]_vars

\* The retrieval over a document of more chunks than two iterations can
\* accept, or over an empty store, with the whole budget of iterations.
LargeCorpusInit ==
    /\ \E n \in {0, MaxChunks + 2} :
          /\ chunks = Corpus(n)
          /\ embeddings = addChunksEmbeddings(Corpus(n))
          /\ bm25 = BM25initialize(BM25New, [i \in 1..n |-> Corpus(n)[i].content])
    /\ query \in Queries
    /\ maxIterations = MaxIter
    /\ topK \in 1..2
    /\ currentQuery = query
    /\ iteration = 0
    /\ allRelevantChunks = <<>>
    /\ retrievedChunks = <<>>
    /\ gradeIdx = 0
    /\ pc = "loop"
    /\ result = NoResult
    /\ searchLog = <<>>
    /\ fallbackLog = <<>>
    /\ graderLog = {}
    /\ graderCalls = 0
    /\ lastGrader = "none"
    /\ rewriterLog = <<>>
    /\ lastRewrite = "none"
    /\ LibraryIdle

LargeCorpusSpec == LargeCorpusInit /\ [][Next]_vars

\* ------------------------------------- the store and the searcher, alone
controllerVars ==
    <<argVars, currentQuery, iteration, allRelevantChunks, retrievedChunks,
      gradeIdx, pc, result, searchLog, fallbackLog, graderLog, graderCalls,
      lastGrader, rewriterLog, lastRewrite>>

\* correctiveRAGRetrieval is not running.
ControllerIdle ==
    /\ query = <<>> /\ maxIterations = 0 /\ topK = 0
    /\ currentQuery = <<>> /\ iteration = 0
    /\ allRelevantChunks = <<>> /\ retrievedChunks = <<>> /\ gradeIdx = 0
    /\ pc = "idle" /\ result = NoResult
    /\ searchLog = <<>> /\ fallbackLog = <<>> /\ graderLog = {}
    /\ graderCalls = 0 /\ lastGrader = "none"
    /\ rewriterLog = <<>> /\ lastRewrite = "none"

\* The chunk lists given to addChunks come in three kinds: the pool of the
\* controller; chunks of punctuation, which have no token; and a list with
\* equal contents, a chunk without tag and a chunk with two tags.
Kinds == {"pool", "punctuation", "repeats"}

KindContent(kind, id) ==
    CASE kind = "pool" -> PoolContent(id)
      [] kind = "punctuation" -> <<",">>
      [] kind = "repeats" -> IF id % 3 = 1 THEN <<",", " ">> ELSE <<"c", " ", "c">>

KindTags(kind, id) ==
    CASE kind = "pool" -> PoolChunk(id).tags
      [] kind = "punctuation" -> {"<summary>"}
      [] kind = "repeats" ->
            CASE id % 3 = 0 -> {"<summary>", "<findings>"}
              [] id % 3 = 1 -> {}
              [] id % 3 = 2 -> {"<findings>"}

TaggedChunks(kind, n) ==
    [i \in 1..n |->
        [chunkId |-> i - 1, header |-> "h",
         content |-> KindContent(kind, i - 1), tags |-> KindTags(kind, i - 1)]]

\* Every length of the pool, and the longest list of the other kinds.
ChunkLists ==
    {TaggedChunks("pool", n) : n \in 0..MaxChunks}
        \cup {TaggedChunks(kind, MaxChunks) : kind \in Kinds}

\* The arguments of the searches: the empty query, a query without token, a
\* query of one and of two tokens; alpha at both ends and in the middle; no
\* tag filter, two tags in use and a tag no chunk carries.
SearchQueries == {<<>>, <<"c">>, <<"a", " ", "b">>}
Alphas == {0, AlphaHalf, Scale}
TagFilters == {NoFilter, "<findings>", "<dates>"}

contentsOf(cs) == [i \in 1..Len(cs) |-> cs[i].content]

\* new VectorStore() and new HybridSearcher(vectorStore), and a caller with
\* its query, topK, alpha and tagFilter.
LibInit ==
    /\ chunks = <<>>
    /\ embeddings = <<>>
    /\ bm25 = BM25New
    /\ searchArgs \in [query : SearchQueries, topK : 0..MaxTopK, alpha : Alphas,
                        tagFilter : TagFilters]
    /\ call = NoCall
    /\ ChunkerIdle
    /\ PipelineIdle
    /\ ControllerIdle

\* VectorStore.addChunks(newChunks)
AddChunks ==
    /\ \E newChunks \in ChunkLists :
          /\ chunks' = newChunks
          /\ embeddings' = addChunksEmbeddings(newChunks)
          /\ call' = [op |-> "addChunks", chunks |-> newChunks]
    /\ UNCHANGED <<bm25, searchArgs, chunkerVars, pipelineVars, controllerVars>>

\* HybridSearcher.initialize()
Initialize ==
    /\ bm25' = BM25initialize(bm25, contentsOf(chunks))
    /\ call' = [op |-> "initialize"]
    /\ UNCHANGED <<chunks, embeddings, searchArgs, chunkerVars, pipelineVars, controllerVars>>

\* HybridSearcher.search(query, topK, alpha, tagFilter): no statement of it
\* raises, with or without initialize() before it.
SearchCall ==
    /\ call' = [op |-> "search", raised |-> FALSE,
                results |-> HybridSearch(chunks, embeddings, bm25, searchArgs.query,
                                         searchArgs.topK, searchArgs.alpha,
                                         searchArgs.tagFilter)]
    /\ UNCHANGED <<storeVars, searchArgs, chunkerVars, pipelineVars, controllerVars>>

\* BM25.getScores(query) on the searcher's index
GetScores ==
    /\ call' = [op |-> "getScores", scores |-> getScores(bm25, searchArgs.query)]
    /\ UNCHANGED <<storeVars, searchArgs, chunkerVars, pipelineVars, controllerVars>>

LibNext ==
    \/ AddChunks
    \/ Initialize
    \/ SearchCall
    \/ GetScores

LibSpec == LibInit /\ [][LibNext]_vars

\* ------------------------------------------------------ the chunker, alone
ChunkInit ==
    /\ markdownText \in TextsOf(MaxBlocks)
    /\ config \in Configs
    /\ processedChunks = NotChunked
    /\ chunks = <<>>
    /\ embeddings = <<>>
    /\ bm25 = BM25New
    /\ searchArgs = NoResult
    /\ call = NoCall
    /\ PipelineIdle
    /\ ControllerIdle

\* chunkDocument(markdownText, config)
ChunkDocument ==
    /\ processedChunks' = [returned |-> TRUE, chunks |-> chunkDocument(markdownText, config)]
    /\ UNCHANGED <<markdownText, config, storeVars, searchArgs, call, pipelineVars,
                   controllerVars>>

ChunkNext == ChunkDocument

ChunkSpec == ChunkInit /\ [][ChunkNext]_vars

\* ------------------------------------------------------------ the pipeline
\* runCorrectiveRAGPipeline and runQueryMode after convertPDFToContent has
\* returned { markdown, html }: the two functions share steps 2 to 5.  The
\* texts are blank, short, or long enough to be cut.
PipelineTexts ==
    { <<>>, <<" ", "\n">>, <<"a", " ", "b">>,
      <<"a", " ", "b", " ", "c", " ", "a", " ", "b", " ", "c">> }

\* The tags tagChunksAndExtractMetadata may put on a chunk; none when the
\* call or the parse fails.
TagSets == {{}, {"<summary>"}}

PipelineInit ==
    /\ markdownText \in PipelineTexts
    /\ html \in PipelineTexts
    /\ config \in Configs
    /\ processedChunks = NotChunked
    /\ stage = "chunk"
    /\ chunks = <<>>
    /\ embeddings = <<>>
    /\ bm25 = BM25New
    /\ searchArgs = NoResult
    /\ call = NoCall
    /\ ControllerIdle

\* if (chunks.length === 1) after chunking the markdown
NoChunksFromMarkdown(made) == Len(made) = 1

\* let chunks = chunkDocument(markdown, config.chunkingConfig)
ChunkMarkdown ==
    /\ stage = "chunk"
    /\ processedChunks' = [returned |-> TRUE,
                           chunks |-> chunkDocument(markdownText, config)]
    /\ stage' = IF NoChunksFromMarkdown(processedChunks'.chunks) THEN "html" ELSE "tag"
    /\ UNCHANGED <<markdownText, config, html, storeVars, searchArgs, call,
                   controllerVars>>

\* chunks = chunkDocument(html, config.chunkingConfig), and the throw when it
\* is empty.
ChunkHtml ==
    /\ stage = "html"
    /\ processedChunks' = [returned |-> TRUE, chunks |-> chunkDocument(html, config)]
    /\ stage' = IF Len(processedChunks'.chunks) = 0 THEN "failed" ELSE "tag"
    /\ UNCHANGED <<markdownText, config, html, storeVars, searchArgs, call,
                   controllerVars>>

\* Steps 3 to 5: tagChunksAndExtractMetadata gives chunk i the chunkId i and
\* its tags, then vectorStore.addChunks and hybridSearcher.initialize; the
\* retrieval of step 6 is next.
TagAndIndex ==
    /\ stage = "tag"
    /\ \E tags \in [1..Len(processedChunks.chunks) -> TagSets] :
          LET taggedChunks ==
                [i \in 1..Len(processedChunks.chunks) |->
                    [chunkId |-> i - 1,
                     header |-> processedChunks.chunks[i].header,
                     content |-> processedChunks.chunks[i].content,
                     charCount |-> processedChunks.chunks[i].charCount,
                     containsTable |-> processedChunks.chunks[i].containsTable,
                     tags |-> tags[i]]]
          IN  /\ chunks' = taggedChunks
              /\ embeddings' = addChunksEmbeddings(taggedChunks)
              /\ bm25' = BM25initialize(BM25New, contentsOf(taggedChunks))
    /\ stage' = "retrieve"
    /\ UNCHANGED <<chunkerVars, html, searchArgs, call, controllerVars>>

PipelineNext ==
    \/ ChunkMarkdown
    \/ ChunkHtml
    \/ TagAndIndex

PipelineSpec == PipelineInit /\ [][PipelineNext]_vars

\* ------------------------------------------------------------ properties
Last(xs) == xs[Len(xs)]

IsPrefix(xs, ys) == Len(xs) <= Len(ys) /\ SubSeq(ys, 1, Len(xs)) = xs

NoTwoSameId(list) ==
    \A i, j \in 1..Len(list) : list[i].chunkId = list[j].chunkId => i = j

GradingOver == pc = "grade" /\ gradeIdx > Len(retrievedChunks)

\* C1: the loop makes at most maxIterations searches, and the iterations of
\* the result is at most maxIterations.
C1_AtMostMaxIterations ==
    /\ Len(searchLog) <= maxIterations
    /\ pc = "done" => result.iterations <= maxIterations

C1_Witness ==
    /\ pc = "done"
    /\ maxIterations = MaxIter
    /\ Len(searchLog) = maxIterations
    /\ result.iterations = maxIterations

\* C2: once the grading of an iteration has ended with at least 3 accepted
\* chunks, no search, grader call or rewriter call follows, and the result
\* carries the number of that iteration.
C2_StopsWhenSufficient ==
    [][ (Len(allRelevantChunks) >= Sufficient /\ (GradingOver \/ pc = "fallback"))
          => /\ searchLog' = searchLog
             /\ graderCalls' = graderCalls
             /\ rewriterLog' = rewriterLog
             /\ fallbackLog' = fallbackLog
             /\ iteration' = iteration
             /\ pc' \in {"fallback", "done"}
             /\ pc' = "done" => result'.iterations = Len(searchLog) ]_vars

C2_Witness ==
    /\ pc = "done"
    /\ maxIterations = MaxIter
    /\ fallbackLog = <<>>
    /\ Len(result.relevantChunks) >= Sufficient
    /\ result.iterations = 1

\* C3: with a chunk in the store and topK >= 1 the result has at least one
\* relevant chunk.
C3_NeverEmpty ==
    (pc = "done" /\ Len(chunks) >= 1 /\ topK >= 1)
        => Len(result.relevantChunks) >= 1

C3_Witness ==
    /\ pc = "done"
    /\ Len(chunks) >= 1
    /\ topK >= 1
    /\ maxIterations >= 1
    /\ graderCalls >= 1
    /\ fallbackLog # <<>>
    /\ Len(result.relevantChunks) >= 1

\* C4: a grader call that raises leaves the accepted set as it was.
C4_GraderFailureRejects ==
    [][ (pc = "grade" /\ graderCalls' = graderCalls + 1 /\ lastGrader' = "error")
          => allRelevantChunks' = allRelevantChunks ]_vars

\* C5: after a rewriter call that raised, the query of the next search is the
\* query of the search before it.
C5_FailedRewriteKeepsQuery ==
    (pc = "loop" /\ lastRewrite = "failed" /\ iteration < maxIterations)
        => currentQuery = Last(searchLog)

\* C6: the retrieval ends with a result, whatever the grader and the
\* rewriter do.  Control is always at a point of the function from which a
\* step exists (never aborted by a failure), and every step lowers a measure
\* that stays >= 0: so done is reached, and there the result is set.
Measure ==
    CASE pc = "done" -> 0
      [] pc = "fallback" -> 1
      [] OTHER ->
            2 + (maxIterations - iteration) * (topK + 4)
              + (CASE pc = "loop" -> 0
                   [] pc \in {"rewrite", "rewriteEmpty"} -> 1
                   [] pc = "grade" -> 2 + (Len(retrievedChunks) + 1 - gradeIdx)
                   [] OTHER -> 0)

C6_ReachesDone ==
    /\ [](pc \in {"loop", "rewriteEmpty", "grade", "rewrite", "fallback", "done"})
    /\ [](Measure >= 0)
    /\ [][Measure' < Measure]_vars
    /\ [](pc = "done" =>
            DOMAIN result = {"query", "finalQuery", "iterations",
                             "relevantChunks", "totalFound"})

\* Done after every grader call and every rewriter call raised.
C6_Witness ==
    /\ pc = "done"
    /\ maxIterations = MaxIter
    /\ Len(searchLog) = MaxIter
    /\ Len(rewriterLog) = MaxIter - 1
    /\ graderCalls >= MaxIter
    /\ lastGrader = "error"
    /\ Len(allRelevantChunks) < Sufficient
    /\ DOMAIN result = {"query", "finalQuery", "iterations",
                        "relevantChunks", "totalFound"}

\* C7: a grading adds its chunk to the accepted set exactly when the grade is
\* relevant with score high or medium (and the chunk is not in the set yet);
\* every chunk the loop accepted carries such a grade.
GradeAccepts(g) == g.relevant = TRUE /\ g.score \in {"high", "medium"}

C7_AcceptedIffGoodGrade ==
    /\ [][ (pc = "grade" /\ graderCalls' = graderCalls + 1)
             => LET before == retrievedChunks[gradeIdx]
                    after == retrievedChunks'[gradeIdx]
                    was == \E i \in 1..Len(allRelevantChunks) :
                              allRelevantChunks[i].chunkId = before.chunkId
                IN  /\ Len(after.grade) = 1
                    /\ IF GradeAccepts(after.grade[1]) /\ ~was
                       THEN allRelevantChunks' = Append(allRelevantChunks, after)
                       ELSE allRelevantChunks' = allRelevantChunks ]_vars
    /\ [](fallbackLog = <<>> =>
            \A i \in 1..Len(allRelevantChunks) :
                /\ Len(allRelevantChunks[i].grade) = 1
                /\ GradeAccepts(allRelevantChunks[i].grade[1]))

C7_Witness ==
    /\ pc = "grade"
    /\ Len(allRelevantChunks) = 1
    /\ \E i, j, k \in 1..Len(retrievedChunks) :
          /\ i < gradeIdx /\ j < gradeIdx /\ k < gradeIdx
          /\ retrievedChunks[i].grade[1].relevant
          /\ retrievedChunks[i].grade[1].score = "low"
          /\ ~retrievedChunks[j].grade[1].relevant
          /\ retrievedChunks[j].grade[1].score = "high"
          /\ retrievedChunks[k].grade[1].relevant
          /\ retrievedChunks[k].grade[1].score = "medium"
          /\ allRelevantChunks[1] = retrievedChunks[k]

\* C8: the accepted chunks have pairwise different chunkIds, in the loop and
\* in the result, and the sequence only grows at its end.
C8_NoDuplicatesInOrder ==
    /\ [](NoTwoSameId(allRelevantChunks)
            /\ (pc = "done" => NoTwoSameId(result.relevantChunks)))
    /\ [][IsPrefix(allRelevantChunks, allRelevantChunks')]_vars

\* A chunk accepted from an earlier search is retrieved again and graded
\* relevant again.
C8_Witness ==
    /\ pc = "grade"
    /\ Len(searchLog) >= 2
    /\ Len(allRelevantChunks) >= 2
    /\ \E i \in 1..Len(retrievedChunks), j \in 1..Len(allRelevantChunks) :
          /\ i < gradeIdx
          /\ GradeAccepts(retrievedChunks[i].grade[1])
          /\ allRelevantChunks[j].chunkId = retrievedChunks[i].chunkId
          /\ allRelevantChunks[j] # retrievedChunks[i]

\* C9: the grader is only ever given the original query.
C9_GraderGetsOriginalQuery == graderLog \subseteq {query}

C9_Witness ==
    /\ pc = "grade"
    /\ gradeIdx > 1
    /\ Len(searchLog) >= 2
    /\ currentQuery # query
    /\ graderLog # {}

\* C10: no fallback search is made before the loop has ended; when the loop
\* ends with nothing accepted, one search with the original query and topK is
\* made and its result, ungraded, is relevantChunks; when it ends with
\* something accepted no search is made, so that a non-empty relevantChunks
\* without fallback holds only chunks graded relevant.
C10_FallbackOnlyWhenEmpty ==
    /\ [](pc \notin {"done"} => fallbackLog = <<>>)
    /\ [][ pc = "fallback" =>
             IF Len(allRelevantChunks) = 0
             THEN /\ fallbackLog' = << <<query, topK>> >>
                  /\ result'.relevantChunks = Search(query, topK)
                  /\ \A i \in 1..Len(result'.relevantChunks) :
                        result'.relevantChunks[i].grade = <<>>
             ELSE /\ fallbackLog' = <<>>
                  /\ result'.relevantChunks = allRelevantChunks
                  /\ \A i \in 1..Len(result'.relevantChunks) :
                        /\ Len(result'.relevantChunks[i].grade) = 1
                        /\ result'.relevantChunks[i].grade[1].relevant ]_vars
    /\ [](pc = "done" => /\ result.iterations <= maxIterations
                         /\ Len(fallbackLog) <= 1)

C10_Witness ==
    /\ pc = "done"
    /\ maxIterations = 3
    /\ graderCalls >= 3
    /\ currentQuery # query
    /\ fallbackLog = << <<query, topK>> >>
    /\ Len(result.relevantChunks) >= 1
    /\ result.relevantChunks # Search(currentQuery, topK)

\* C11: the iterations of the result is the number of searches made inside
\* the loop: the counter and the searches advance together, and the result
\* carries the counter.
C11_IterationsCountSearches ==
    /\ iteration = Len(searchLog)
    /\ pc = "done" => result.iterations = Len(searchLog)

\* The loop stopped on its second search, one short of its budget.
C11_Witness ==
    /\ pc = "done"
    /\ maxIterations = MaxIter
    /\ Len(searchLog) = 2
    /\ Len(rewriterLog) = 1
    /\ result.iterations = 2

\* C12: the finalQuery of the result is the query of the last search made
\* inside the loop, and it is the original query when no rewrite was made.
C12_FinalQueryIsLastSearched ==
    pc = "done" =>
        /\ searchLog # <<>> => result.finalQuery = Last(searchLog)
        /\ rewriterLog = <<>> => result.finalQuery = query


\* --------------------------------------- properties of store and searcher
Min2(a, b) == IF a <= b THEN a ELSE b

\* The positions of the chunks a search with this tag filter may return.
FilterCandidates ==
    {p \in 1..Len(chunks) :
        searchArgs.tagFilter = NoFilter \/ searchArgs.tagFilter \in chunks[p].tags}

\* The position in the store of the chunk a result was made from.
PositionOf(r) ==
    CHOOSE p \in 1..Len(chunks) : ChunkIdString(chunks[p].chunkId) = r.chunkId

Searched == call.op = "search"

\* The searcher's index was built over the chunks now in the store.
IndexInSync ==
    /\ bm25 # BM25New
    /\ bm25.documents = [p \in 1..Len(chunks) |-> tokenize(chunks[p].content)]

\* C13: every result of a search with a tag filter is a chunk of the store
\* that carries the tag, for every alpha; without such a chunk the result is
\* empty.
C13_TagFilterRespected ==
    (Searched /\ searchArgs.tagFilter # NoFilter) =>
        /\ \A i \in 1..Len(call.results) :
              /\ searchArgs.tagFilter \in call.results[i].tags
              /\ \E p \in FilterCandidates :
                    /\ call.results[i].chunkId = ChunkIdString(chunks[p].chunkId)
                    /\ call.results[i].content = chunks[p].content
                    /\ call.results[i].tags = chunks[p].tags
        /\ FilterCandidates = {} => call.results = <<>>

\* At alpha = 1 the filter leaves one chunk of three, although topK is 2.
C13_Witness ==
    /\ Searched
    /\ searchArgs.tagFilter = "<findings>"
    /\ searchArgs.alpha = Scale
    /\ searchArgs.topK = 2
    /\ Len(chunks) = 3
    /\ Cardinality(FilterCandidates) = 1
    /\ Len(call.results) = 1

\* C14: a search returns min(topK, number of candidates) results, by
\* non-increasing combined score, equal scores by position in the store; a
\* candidate left out does not come before the last result in that order.
C14_TopKSortedStable ==
    Searched =>
        LET res == call.results
            all == CombinedScores(chunks, embeddings, bm25, searchArgs.query,
                                  searchArgs.topK, searchArgs.alpha, searchArgs.tagFilter)
            returned == {PositionOf(res[i]) : i \in 1..Len(res)}
        IN  /\ Len(res) = Min2(searchArgs.topK, Cardinality(FilterCandidates))
            /\ returned \subseteq FilterCandidates
            /\ Cardinality(returned) = Len(res)
            /\ \A i, j \in 1..Len(res) :
                  i < j => \/ res[i].score > res[j].score
                           \/ /\ res[i].score = res[j].score
                              /\ PositionOf(res[i]) < PositionOf(res[j])
            /\ \A c \in 1..Len(all) :
                  LET p == PositionOf(all[c])
                  IN  (Len(res) > 0 /\ p \notin returned) =>
                         \/ all[c].score < Last(res).score
                         \/ /\ all[c].score = Last(res).score
                            /\ p > PositionOf(Last(res))

\* Two chunks of equal content tie; the cut at topK leaves a candidate out.
C14_Witness ==
    /\ Searched
    /\ searchArgs.topK = 2
    /\ Cardinality(FilterCandidates) = 3
    /\ Len(call.results) = 2
    /\ call.results[1].score = call.results[2].score
    /\ call.results[1].score > 0
    /\ call.results[1].content = call.results[2].content

\* A result without its score.
Unscored(results) == [i \in 1..Len(results) |-> [results[i] EXCEPT !.score = 0]]

\* x || 0 of the score the index gives the chunk at position p.
LexicalScore(p) == OrZero(getScores(bm25, searchArgs.query), p)

HasQueryTerm(p) ==
    TermsOf(tokenize(chunks[p].content)) \cap TermsOf(tokenize(searchArgs.query)) # {}

\* C15: at alpha = 1 a search returns the chunks of semanticSearch(query,
\* topK, tagFilter) in its order; at alpha = 0 it returns the candidates by
\* non-increasing BM25 score, and the only candidate with a query term, when
\* the index is built over the store, comes first.
C15_AlphaExtremes ==
    /\ (Searched /\ searchArgs.alpha = Scale) =>
          Unscored(call.results) =
             Unscored(semanticSearch(chunks, embeddings, searchArgs.query,
                                     searchArgs.topK, searchArgs.tagFilter))
    /\ (Searched /\ searchArgs.alpha = 0) =>
          LET res == call.results
              returned == {PositionOf(res[i]) : i \in 1..Len(res)}
          IN  /\ \A i, j \in 1..Len(res) :
                    i < j => LexicalScore(PositionOf(res[i])) >= LexicalScore(PositionOf(res[j]))
              /\ \A p \in FilterCandidates \ returned :
                    Len(res) > 0 => LexicalScore(p) <= LexicalScore(PositionOf(Last(res)))
              /\ \A p \in FilterCandidates :
                    (/\ IndexInSync
                     /\ searchArgs.topK >= 1
                     /\ HasQueryTerm(p)
                     /\ \A o \in FilterCandidates \ {p} : ~HasQueryTerm(o))
                       => PositionOf(res[1]) = p

\* Three chunks and topK = 1: two semantic candidates are fetched, one chunk
\* is not; the semantic order is not the lexical one.
C15_Witness ==
    /\ Searched
    /\ searchArgs.alpha = Scale
    /\ searchArgs.topK = 1
    /\ IndexInSync
    /\ Cardinality(FilterCandidates) = 3
    /\ Len(call.results) = 1
    /\ Unscored(call.results) #
          Unscored(HybridSearch(chunks, embeddings, bm25, searchArgs.query,
                                searchArgs.topK, 0, searchArgs.tagFilter))

\* C16: the BM25 score of a document without any token of the query is 0.
C16_NoQueryTermScoresZero ==
    call.op = "getScores" =>
        \A i \in 1..Len(call.scores) :
            TermsOf(bm25.documents[i]) \cap TermsOf(tokenize(searchArgs.query)) = {}
                => call.scores[i] = 0

\* C17: an index built over no document gives no score, for every query, and
\* a search over an empty store returns no result and does not raise.
C17_EmptyCorpus ==
    /\ (call.op = "getScores" /\ bm25.documents = <<>>) => call.scores = <<>>
    /\ (Searched /\ chunks = <<>>) => (call.results = <<>> /\ ~call.raised)

\* A search for two words over an empty store, its index built over it.
C17_Witness ==
    /\ Searched
    /\ chunks = <<>>
    /\ IndexInSync
    /\ bm25.avgCount = 0
    /\ Len(tokenize(searchArgs.query)) = 2
    /\ searchArgs.topK >= 1
    /\ call.results = <<>>

\* C18: a search on a searcher whose initialize() never ran, over a store
\* with chunks, raises.
C18_SearchBeforeInitializeRaises ==
    (Searched /\ bm25 = BM25New /\ Len(chunks) >= 1) => call.raised

\* C19: the store holds the chunks of the latest addChunks and one embedding
\* per chunk, made from the content of the chunk at the same position.
C19_StoreRebuiltTogether ==
    /\ Len(embeddings) = Len(chunks)
    /\ \A i \in 1..Len(chunks) :
          embeddings[i] = generateSimpleEmbedding(chunks[i].content)
    /\ call.op = "addChunks" => chunks = call.chunks

\* A shorter list was added after a longer one, which the index was built
\* over.
C19_Witness ==
    /\ call.op = "addChunks"
    /\ Len(chunks) >= 1
    /\ Len(bm25.documents) > Len(chunks)
    /\ Len(embeddings) = Len(chunks)


\* ------------------------------------------------ properties of the chunker
Chunked == processedChunks.returned

\* C20: every chunk chunkDocument returns has charCount = the length of its
\* content.
C20_CharCountIsLength ==
    Chunked =>
        \A i \in 1..Len(processedChunks.chunks) :
            processedChunks.chunks[i].charCount = Len(processedChunks.chunks[i].content)


Contains(text, ch) == \E i \in 1..Len(text) : text[i] = ch

\* A section too small was merged with the next one and the merged text,
\* too large, was split into parts.
C20_Witness ==
    /\ Chunked
    /\ \E i \in 1..Len(processedChunks.chunks) :
          LET chunk == processedChunks.chunks[i]
          IN  /\ Contains(chunk.header, "+")
              /\ Last(chunk.header) = ")"
              /\ chunk.charCount > 0
              /\ chunk.charCount = Len(chunk.content)

\* The places where sub occurs in text.
OccurrencesOf(sub, text) ==
    {i \in 1..(Len(text) - Len(sub) + 1) : SubSeq(text, i, i + Len(sub) - 1) = sub}

Occurs(sub, text) == OccurrencesOf(sub, text) # {}

\* C21: a table between two paragraphs of a heading section is found whole
\* in exactly one of the chunks chunkDocument returns, and that chunk has
\* containsTable = true, in a text of one heading as in a text of several.
C21_TableWholeInOneChunk ==
    (Chunked /\ Cardinality(OccurrencesOf(TableText, markdownText)) = 1) =>
        LET made == processedChunks.chunks
            holders == {i \in 1..Len(made) : Occurs(TableText, made[i].content)}
        IN  /\ Cardinality(holders) = 1
            /\ \A i \in holders : made[i].containsTable

\* C22: with overlap < maxChunkSize, every chunk chunkDocument returns that
\* holds no table has charCount <= maxChunkSize, the chunks that start with
\* the overlap of the previous chunk and the pieces cut from a long word
\* included.
C22_ChunksWithinMaxSize ==
    (Chunked /\ config.overlap < config.maxChunkSize) =>
        \A i \in 1..Len(processedChunks.chunks) :
            ~processedChunks.chunks[i].containsTable =>
                processedChunks.chunks[i].charCount <= config.maxChunkSize

RECURSIVE JoinSections(_)
JoinSections(sections) ==
    IF Len(sections) = 1 THEN Trim(sections[1])
    ELSE Trim(sections[1]) \o <<"\n", "\n">> \o JoinSections(Tail(sections))

RECURSIVE Flatten(_)
Flatten(sections) ==
    IF sections = <<>> THEN <<>> ELSE Head(sections) \o Flatten(Tail(sections))

\* The ways to read markdownText as two or more heading sections without
\* table that together stay below minChunkSize.
SmallSections ==
    {sections \in UNION {[1..n -> SectionBlocks] : n \in 2..MaxBlocks} :
        /\ Flatten(sections) = markdownText
        /\ Len(JoinSections(sections)) < config.minChunkSize}

\* C26: a text of consecutive heading sections without table, each shorter
\* than minChunkSize, comes back from chunkDocument as one chunk that holds
\* the content of every section, the last one included.
C26_SmallSectionsMergedWhole ==
    Chunked =>
        \A sections \in SmallSections :
            /\ Len(processedChunks.chunks) = 1
            /\ \A k \in 1..Len(sections) :
                  Occurs(Trim(sections[k]), processedChunks.chunks[1].content)

\* ------------------------------------ more properties of the controller
\* C23: every call of the rewriter, on the no-results path as on the
\* insufficient-results path and in every iteration, is given the original
\* query of the retrieval.
C23_RewriterGetsOriginalQuery ==
    \A i \in 1..Len(rewriterLog) : rewriterLog[i] = query

\* C24: the rewriter is called only after a search that left fewer than
\* Sufficient accepted chunks and only while iteration < maxIterations, so a
\* retrieval calls it at most maxIterations - 1 times, also when the searches
\* find nothing.
C24_RewriteOnlyWhileIterationsRemain ==
    /\ pc \in {"rewrite", "rewriteEmpty"} =>
          /\ Len(allRelevantChunks) < Sufficient
          /\ iteration < maxIterations
    /\ maxIterations >= 1 => Len(rewriterLog) <= maxIterations - 1

\* C25: the grader is called only for a retrieved chunk whose chunkId is not
\* among the accepted chunks.
C25_AcceptedChunkNotGradedAgain ==
    [][ graderCalls' # graderCalls =>
            ~AlreadyIn(allRelevantChunks, retrievedChunks[gradeIdx]) ]_vars

\* C28: the relevantChunks of the result has at most topK + 2 entries (at
\* most topK on the fallback path) and totalFound is its length.
C28_AtMostTopKPlusTwo ==
    pc = "done" =>
        /\ Len(result.relevantChunks) <= topK + 2
        /\ fallbackLog # <<>> => Len(result.relevantChunks) <= topK
        /\ result.totalFound = Len(result.relevantChunks)

\* Two chunks were accepted in one iteration and topK more in the next, out
\* of a store that holds more.
C28_Witness ==
    /\ pc = "done"
    /\ Len(chunks) > topK + 2
    /\ Len(searchLog) >= 2
    /\ fallbackLog = <<>>
    /\ Len(result.relevantChunks) = topK + 2
    /\ result.totalFound = topK + 2

\* --------------------------------- more properties of store and searcher
\* An index made by a new BM25 over the contents now in the store.
FreshIndex == BM25initialize(BM25New, contentsOf(chunks))

\* C29: whatever addChunks, initialize and search calls were made, the
\* lexical score a search uses for a candidate is the BM25 score of the
\* content the chunk has now, also when the corpus was replaced after the
\* last initialize().
C29_LexicalScoreOfOwnContent ==
    (Searched /\ bm25 # BM25New) =>
        \A p \in FilterCandidates :
            LexicalScore(p) = OrZero(getScores(FreshIndex, searchArgs.query), p)

\* C30: after initialize() on an index that was built before, every query
\* gets the scores an index newly made over the same documents gives.
C30_RebuiltIndexScoresAsFresh ==
    call.op = "initialize" =>
        \A q \in SearchQueries : getScores(bm25, q) = getScores(FreshIndex, q)

\* The index was built over a corpus and then over another one without the
\* term c: the entry of c is left in the idf map, the query asks for c, and
\* the documents have tokens.
C30_Witness ==
    /\ call.op = "initialize"
    /\ <<"c">> \in DOMAIN bm25.idf
    /\ <<"c">> \notin DOMAIN FreshIndex.idf
    /\ bm25.idf[<<"c">>] # 0
    /\ bm25.avgSum > 0
    /\ Len(chunks) >= 1
    /\ <<"c">> \in SearchQueries

\* -------------------------------------------- properties of the pipeline
\* C27: when chunking the markdown gives no chunks the pipeline chunks the
\* HTML instead, it fails when the HTML gives none either, and it never goes
\* on to tagging, indexing and retrieval with zero chunks.
C27_NeverGoesOnWithoutChunks ==
    LET fromMarkdown == chunkDocument(markdownText, config)
        fromHtml == chunkDocument(html, config)
    IN  /\ stage \in {"tag", "retrieve"} => Len(processedChunks.chunks) > 0
        /\ stage = "retrieve" => Len(chunks) > 0
        /\ (stage \in {"html", "tag", "retrieve", "failed"} /\ fromMarkdown = <<>>) =>
              /\ stage # "html" => processedChunks.chunks = fromHtml
              /\ stage = "failed" <=> fromHtml = <<>>

====
